---- MODULE Spec2Model ----
(***************************************************************************)
(* A model of the crypto tracker service (src/src/services/tracker.py):    *)
(* the tracked-coin collection, the stored price snapshots, the batch      *)
(* recording loop, the two analytics reports and the three statistics      *)
(* calculators they are built from.                                        *)
(*                                                                         *)
(* Prices are Python floats in the code.  The model computes with exact    *)
(* rationals [n |-> numerator, d |-> denominator] in lowest terms with     *)
(* d > 0; every price the model draws is an integer, for which the code's  *)
(* sums and products are exact.  The standard deviation is carried by its  *)
(* square (the sample variance), and a comparison of the coefficient of    *)
(* variation with a positive threshold is made on the squares.             *)
(***************************************************************************)
EXTENDS Integers, Sequences, FiniteSets, TLC

VARIABLES tracked, coin_prices, clock, arg, result, pc, connection

vars == <<tracked, coin_prices, clock, arg, result, pc, connection>>

(***************************************************************************)
(* Bounds of the model.                                                    *)
(***************************************************************************)
\* longest price sequence handed to a calculator on its own
MaxWindow == 3
\* largest magnitude of the momentum inputs (net change in percent, slope in hundredths)
MaxMag == 24

(***************************************************************************)
(* Exact arithmetic standing for the float arithmetic of the code.         *)
(***************************************************************************)
Abs(x) == IF x < 0 THEN -x ELSE x

RECURSIVE GCD(_, _)
GCD(a, b) == IF b = 0 THEN a ELSE GCD(b, a % b)

Rat(n, d) ==
    LET g == GCD(Abs(n), Abs(d))
        s == IF d < 0 THEN -1 ELSE 1
    IN  [n |-> (s * n) \div g, d |-> (s * d) \div g]

FromInt(i) == [n |-> i, d |-> 1]

RAdd(a, b) == Rat(a.n * b.d + b.n * a.d, a.d * b.d)
RMul(a, b) == Rat(a.n * b.n, a.d * b.d)
RDiv(a, b) == Rat(a.n * b.d, a.d * b.n)
RLess(a, b) == a.n * b.d < b.n * a.d
RAbs(a) == [n |-> Abs(a.n), d |-> a.d]
RMax(a, b) == IF RLess(a, b) THEN b ELSE a
RMin(a, b) == IF RLess(b, a) THEN b ELSE a

RECURSIVE SumSeq(_)
SumSeq(s) == IF s = <<>> THEN 0 ELSE Head(s) + SumSeq(Tail(s))

RECURSIVE MaxSeq(_)
MaxSeq(s) == IF Len(s) = 1 THEN s[1]
             ELSE LET m == MaxSeq(Tail(s)) IN IF s[1] > m THEN s[1] ELSE m

RECURSIVE MinSeq(_)
MinSeq(s) == IF Len(s) = 1 THEN s[1]
             ELSE LET m == MinSeq(Tail(s)) IN IF s[1] < m THEN s[1] ELSE m

\* statistics.mean(prices), for a non-empty sequence
Mean(prices) == Rat(SumSeq(prices), Len(prices))

\* statistics.stdev(prices) ** 2: the sample variance (divisor n - 1), n >= 2
Variance(prices) ==
    LET n == Len(prices)
        s == SumSeq(prices)
        q == SumSeq([i \in 1..n |-> prices[i] * prices[i]])
    IN  Rat(n * q - s * s, n * (n - 1))

(***************************************************************************)
(* The statistics calculators.                                             *)
(***************************************************************************)

\* a variant that classifies with <= at both thresholds
VolatilityInclusive(prices) ==
    IF Len(prices) < 2 THEN "Unknown"
    ELSE LET mean_price == Mean(prices)
             coeff_var_sq == IF mean_price.n # 0
                             THEN RDiv(Variance(prices), RMul(mean_price, mean_price))
                             ELSE FromInt(0)
             AtMost(t) == mean_price.n < 0 \/ ~RLess(RMul(t, t), coeff_var_sq)
         IN  IF AtMost(Rat(1, 100)) THEN "Low"
             ELSE IF AtMost(Rat(5, 100)) THEN "Medium"
             ELSE "High"

\* CryptoTracker._calculate_volatility.  coeff_var = std_dev / mean_price has
\* the sign of mean_price (std_dev >= 0) and the square variance / mean_price^2,
\* so coeff_var < t, for t > 0, is: mean_price < 0, or the square is below t^2.
_calculate_volatility(prices) ==
    IF Len(prices) < 2 THEN "Unknown"
    ELSE LET mean_price == Mean(prices)
             coeff_var_sq == IF mean_price.n # 0
                             THEN RDiv(Variance(prices), RMul(mean_price, mean_price))
                             ELSE FromInt(0)
             Below(t) == mean_price.n < 0 \/ RLess(coeff_var_sq, RMul(t, t))
         IN  IF Below(Rat(1, 100)) THEN "Low"
             ELSE IF Below(Rat(5, 100)) THEN "Medium"
             ELSE "High"

\* a variant whose thresholds are inclusive
TrendLabelInclusive(norm_slope) ==
    IF ~RLess(norm_slope, Rat(5, 10)) THEN "Strong Uptrend"
    ELSE IF ~RLess(norm_slope, Rat(1, 10)) THEN "Uptrend"
    ELSE IF ~RLess(Rat(-5, 10), norm_slope) THEN "Strong Downtrend"
    ELSE IF ~RLess(Rat(-1, 10), norm_slope) THEN "Downtrend"
    ELSE "Sideways"

\* the if/elif chain of CryptoTracker._calculate_trend: the label of a
\* normalized slope, first match wins
TrendLabel(norm_slope) ==
    IF RLess(Rat(5, 10), norm_slope) THEN "Strong Uptrend"
    ELSE IF RLess(Rat(1, 10), norm_slope) THEN "Uptrend"
    ELSE IF RLess(norm_slope, Rat(-5, 10)) THEN "Strong Downtrend"
    ELSE IF RLess(norm_slope, Rat(-1, 10)) THEN "Downtrend"
    ELSE "Sideways"

\* CryptoTracker._calculate_trend: the least-squares slope over x = 0..n-1
\* (prices[i] of the code is prices[i + 1] here), 0 when the denominator is 0,
\* normalized by the mean price.  statistics.mean raises on an empty sequence.
_calculate_trend(prices) ==
    LET n == Len(prices)
        sum_x == SumSeq([i \in 1..n |-> i - 1])
        sum_y == SumSeq(prices)
        sum_xy == SumSeq([i \in 1..n |-> (i - 1) * prices[i]])
        sum_x2 == SumSeq([i \in 1..n |-> (i - 1) * (i - 1)])
        denom == n * sum_x2 - sum_x * sum_x
        slope == IF denom = 0 THEN FromInt(0)
                 ELSE Rat(n * sum_xy - sum_x * sum_y, denom)
        mean_price == Mean(prices)
        norm_slope == IF mean_price.n # 0
                      THEN RMul(RDiv(slope, mean_price), FromInt(100))
                      ELSE FromInt(0)
    IN  IF n = 0 THEN [error |-> "StatisticsError"]
        ELSE [trend |-> TrendLabel(norm_slope), norm_slope |-> norm_slope]

\* a variant that forgets the absolute values
MomentumSigned(net_change_percent, norm_slope) ==
    LET momentum == RAdd(RMul(net_change_percent, Rat(5, 10)),
                         RMul(norm_slope, FromInt(20)))
    IN  RMin(RMax(momentum, FromInt(0)), FromInt(10))

\* CryptoTracker._calculate_momentum
_calculate_momentum(net_change_percent, norm_slope) ==
    LET momentum == RAdd(RMul(RAbs(net_change_percent), Rat(5, 10)),
                         RMul(RAbs(norm_slope), FromInt(20)))
    IN  RMin(RMax(momentum, FromInt(0)), FromInt(10))

(***************************************************************************)
(* The document store and the price source.                                *)
(*   tracked     : the TrackedCoinDocument collection, a set of documents  *)
(*   coin_prices : the CoinPriceDocument collection in insertion order     *)
(*   clock       : the timestamp the next snapshot gets (datetime.now)     *)
(*   result      : what the last call returned or raised                   *)
(***************************************************************************)
\* most snapshots the store holds
MaxRecords == 5
\* largest limit a caller passes
MaxLimit == 5

CoinIds == {"bitcoin", "ethereum", "solana"}
\* the coins whose snapshots are recorded one by one and analysed
AnalysedCoins == {"bitcoin", "ethereum"}
\* limits a caller may pass: the service takes any int
Limits == -2..MaxLimit

\* what client.get_price(coin_id) may return; it may also raise
SourcePrices(coin_id) == IF coin_id = "bitcoin" THEN {0, 10, 11, 12}
                         ELSE IF coin_id = "ethereum" THEN {7}
                         ELSE {3}
\* the error of a failed request, of a coin list that cannot be fetched
SourceError == "RuntimeError"
\* the errors of get_price: RuntimeError for a failed request or a missing
\* price; the ValueError of response.json() on a body that is not JSON; the
\* TypeError of `vs_currency not in data[coin_id]` on a value that is no
\* container; the OverflowError of float() on an integer too large
SourceErrors == {SourceError, "ValueError", "TypeError", "OverflowError"}
\* Ctrl-C while the request is under way: no Exception, so no
\* `except Exception` catches it
Interrupted == "KeyboardInterrupt"
SourceOutcomes(coin_id) ==
    {[raised |-> FALSE, price |-> p, error |-> "none"] : p \in SourcePrices(coin_id)}
    \cup {[raised |-> TRUE, price |-> 0, error |-> e] : e \in SourceErrors \cup {Interrupted}}

\* CoinPriceDocument(coin_id=..., price=..., timestamp=...)
CoinPriceDocument(coin_id, price, timestamp) ==
    [coin_id |-> coin_id, price |-> price, timestamp |-> timestamp]

\* CoinPriceDocument.objects(coin_id=coin_id)
PriceDocsOf(coin_id) ==
    {coin_prices[i] : i \in {j \in 1..Len(coin_prices) : coin_prices[j].coin_id = coin_id}}

\* .order_by("-timestamp")
RECURSIVE OrderByTimestampDesc(_)
OrderByTimestampDesc(docs) ==
    IF docs = {} THEN <<>>
    ELSE LET d == CHOOSE x \in docs : \A y \in docs : y.timestamp <= x.timestamp
         IN  <<d>> \o OrderByTimestampDesc(docs \ {d})

Min(a, b) == IF a < b THEN a ELSE b

\* QuerySet.limit(limit) on `ordered`, as the store driver applies it: a
\* positive limit cuts the list; limit(0) is documented by mongoengine as
\* "returns all the documents"; pymongo sends a negative limit to the server
\* as its absolute value.
Limited(ordered, limit) ==
    IF limit = 0 THEN ordered
    ELSE SubSeq(ordered, 1, Min(Abs(limit), Len(ordered)))

\* a variant whose query has lost its coin_id filter
PriceHistoryOfAnyCoin(coin_id, limit) ==
    Limited(OrderByTimestampDesc({coin_prices[i] : i \in 1..Len(coin_prices)}), limit)

\* CryptoTracker.get_price_history: the documents of the coin, newest first,
\* cut at limit
get_price_history(coin_id, limit) ==
    Limited(OrderByTimestampDesc(PriceDocsOf(coin_id)), limit)

\* a variant that divides by the close price
NetChangeOverClose(open_price, close_price) ==
    IF close_price # 0
    THEN RMul(Rat(close_price - open_price, close_price), FromInt(100))
    ELSE FromInt(0)

\* ((close_price - open_price) / open_price) * 100.0 if open_price else 0.0
NetChange(open_price, close_price) ==
    IF open_price # 0
    THEN RMul(Rat(close_price - open_price, open_price), FromInt(100))
    ELSE FromInt(0)

\* a variant that takes the first element as the open price
MarketAnalyticsSwapped(coin_id, limit, history) ==
    LET actual_count == Len(history)
        prices == [i \in 1..actual_count |-> history[i].price]
        open_price == prices[1]
        close_price == prices[actual_count]
        call == [op |-> "get_market_analytics", coin_id |-> coin_id, limit |-> limit,
                 fetches |-> 1, retrieved |-> actual_count]
    IN  IF actual_count < 2
        THEN [call |-> call, status |-> "error", error |-> "ValueError", found |-> actual_count]
        ELSE [call |-> call, status |-> "ok",
              report |-> [coin_id |-> coin_id,
                          record_count |-> actual_count,
                          open_price |-> open_price,
                          close_price |-> close_price,
                          high_price |-> MaxSeq(prices),
                          low_price |-> MinSeq(prices),
                          average_price |-> Mean(prices),
                          net_change_percent |-> NetChange(open_price, close_price)]]

\* CryptoTracker.get_market_analytics, given the history its fetch returned.
\* prices[-1] of the code is prices[actual_count] here, prices[0] is prices[1].
get_market_analytics(coin_id, limit, history) ==
    LET actual_count == Len(history)
        prices == [i \in 1..actual_count |-> history[i].price]
        open_price == prices[actual_count]
        close_price == prices[1]
        call == [op |-> "get_market_analytics", coin_id |-> coin_id, limit |-> limit,
                 fetches |-> 1, retrieved |-> actual_count]
    IN  IF actual_count < 2
        THEN [call |-> call, status |-> "error", error |-> "ValueError", found |-> actual_count]
        ELSE [call |-> call, status |-> "ok",
              report |-> [coin_id |-> coin_id,
                          record_count |-> actual_count,
                          open_price |-> open_price,
                          close_price |-> close_price,
                          high_price |-> MaxSeq(prices),
                          low_price |-> MinSeq(prices),
                          average_price |-> Mean(prices),
                          net_change_percent |-> NetChange(open_price, close_price)]]

\* a variant whose floor is 3 records
TrendAnalysisFloorThree(coin_id, limit, history) ==
    LET prices == [i \in 1..Len(history) |-> history[i].price]
        volatility == _calculate_volatility(prices)
        tr == _calculate_trend(prices)
        open_price == prices[Len(prices)]
        close_price == prices[1]
        net_change_percent == NetChange(open_price, close_price)
        momentum_score == _calculate_momentum(net_change_percent, tr.norm_slope)
        call == [op |-> "get_trend_analysis", coin_id |-> coin_id, limit |-> limit,
                 fetches |-> 1, retrieved |-> Len(history)]
    IN  IF Len(history) < 3
        THEN [call |-> call, status |-> "error", error |-> "ValueError", found |-> Len(history)]
        ELSE [call |-> call, status |-> "ok", norm_slope |-> tr.norm_slope,
              report |-> [coin_id |-> coin_id,
                          record_count |-> Len(prices),
                          trend |-> tr.trend,
                          volatility |-> volatility,
                          momentum_score |-> momentum_score,
                          net_change_percent |-> net_change_percent]]

\* CryptoTracker.get_trend_analysis, given the history its fetch returned.
\* The calculators get prices as fetched, newest first.  norm_slope is the
\* local of that name; the report itself does not carry it.
get_trend_analysis(coin_id, limit, history) ==
    LET prices == [i \in 1..Len(history) |-> history[i].price]
        volatility == _calculate_volatility(prices)
        tr == _calculate_trend(prices)
        open_price == prices[Len(prices)]
        close_price == prices[1]
        net_change_percent == NetChange(open_price, close_price)
        momentum_score == _calculate_momentum(net_change_percent, tr.norm_slope)
        call == [op |-> "get_trend_analysis", coin_id |-> coin_id, limit |-> limit,
                 fetches |-> 1, retrieved |-> Len(history)]
    IN  IF Len(history) < 4
        THEN [call |-> call, status |-> "error", error |-> "ValueError", found |-> Len(history)]
        ELSE [call |-> call, status |-> "ok", norm_slope |-> tr.norm_slope,
              report |-> [coin_id |-> coin_id,
                          record_count |-> Len(prices),
                          trend |-> tr.trend,
                          volatility |-> volatility,
                          momentum_score |-> momentum_score,
                          net_change_percent |-> net_change_percent]]

(***************************************************************************)
(* The database connection (src/src/database/mongo.py).  driver is the     *)
(* list of the calls made to mongoengine's connect and disconnect, each    *)
(* with whether it raised.                                                 *)
(***************************************************************************)
\* MongoDBConnection.__init__
MongoDBConnection == [_connected |-> FALSE, driver |-> <<>>]

DriverCall(fn, raised) == [fn |-> fn, raised |-> raised]

\* a variant that marks the instance before the driver has answered
ConnectMarkingFirst(conn, driver_raises) ==
    IF conn._connected THEN [conn |-> conn, raised |-> FALSE]
    ELSE [conn |-> [_connected |-> TRUE,
                    driver |-> Append(conn.driver, DriverCall("connect", driver_raises))],
          raised |-> driver_raises]

\* MongoDBConnection.connect; driver_raises: mongoengine's connect raises
connect(conn, driver_raises) ==
    IF conn._connected THEN [conn |-> conn, raised |-> FALSE]
    ELSE IF driver_raises
         THEN [conn |-> [conn EXCEPT !.driver = Append(@, DriverCall("connect", TRUE))],
               raised |-> TRUE]
         ELSE [conn |-> [_connected |-> TRUE,
                         driver |-> Append(conn.driver, DriverCall("connect", FALSE))],
               raised |-> FALSE]

\* MongoDBConnection.disconnect
disconnect(conn) ==
    IF conn._connected
    THEN [_connected |-> FALSE, driver |-> Append(conn.driver, DriverCall("disconnect", FALSE))]
    ELSE conn

\* CryptoTracker.__init__ has connected its connection
ServiceConnection == connect(MongoDBConnection, FALSE).conn

\* the caller of the service is between two calls
Idle == [at |-> "idle"]

NoArg == [kind |-> "none"]
NoResult == [call |-> [op |-> "none"]]

(***************************************************************************)
(* The service as a state machine: snapshots are recorded one at a time,   *)
(* and the two analytics calls read them.  Calls are synchronous and one   *)
(* at a time: result holds the outcome of the call in progress until the   *)
(* caller has taken it (Continue), and only then the next call starts.     *)
(***************************************************************************)
Init ==
    /\ tracked = {}
    /\ coin_prices = <<>>
    /\ clock = 0
    /\ arg = NoArg
    /\ result = NoResult
    /\ pc = Idle
    /\ connection = ServiceConnection

\* CryptoTracker.record_price_for_coin
RecordPriceForCoin ==
    /\ result = NoResult
    /\ Len(coin_prices) < MaxRecords
    /\ \E coin_id \in AnalysedCoins : \E quote \in SourceOutcomes(coin_id) :
        /\ IF quote.raised
           THEN /\ result' = [call |-> [op |-> "record_price_for_coin", coin_id |-> coin_id],
                              status |-> "error", error |-> quote.error]
                /\ UNCHANGED <<coin_prices, clock>>
           ELSE LET doc == CoinPriceDocument(coin_id, quote.price, clock)
                IN  /\ coin_prices' = Append(coin_prices, doc)
                    /\ clock' = clock + 1
                    /\ result' = [call |-> [op |-> "record_price_for_coin", coin_id |-> coin_id],
                                  status |-> "ok", value |-> doc]
        /\ UNCHANGED <<tracked, arg, pc, connection>>

GetMarketAnalytics ==
    /\ result = NoResult
    /\ \E coin_id \in AnalysedCoins : \E limit \in Limits :
        /\ result' = get_market_analytics(coin_id, limit, get_price_history(coin_id, limit))
        /\ UNCHANGED <<tracked, coin_prices, clock, arg, pc, connection>>

GetTrendAnalysis ==
    /\ result = NoResult
    /\ \E coin_id \in AnalysedCoins : \E limit \in Limits :
        /\ result' = get_trend_analysis(coin_id, limit, get_price_history(coin_id, limit))
        /\ UNCHANGED <<tracked, coin_prices, clock, arg, pc, connection>>

\* the caller has the outcome of its call and goes on to the next one
Continue ==
    /\ result # NoResult
    /\ result' = NoResult
    /\ UNCHANGED <<tracked, coin_prices, clock, arg, pc, connection>>

Next == RecordPriceForCoin \/ GetMarketAnalytics \/ GetTrendAnalysis \/ Continue

Spec == Init /\ [][Next]_vars

(***************************************************************************)
(* Properties of the analytics calls.  The window of a call is told from   *)
(* the store by timestamps alone: the k documents of the coin that have    *)
(* fewer than k newer documents of the same coin.                          *)
(***************************************************************************)
IsMarket == result.call.op = "get_market_analytics"
IsTrend == result.call.op = "get_trend_analysis"
Succeeded == result.status = "ok"

StoredCount(coin_id) == Cardinality(PriceDocsOf(coin_id))
NewerCount(d) ==
    Cardinality({e \in PriceDocsOf(d.coin_id) : e.timestamp > d.timestamp})
WindowDocs(coin_id, k) == {d \in PriceDocsOf(coin_id) : NewerCount(d) < k}
OldestOf(docs) == CHOOSE d \in docs : \A e \in docs : d.timestamp <= e.timestamp
NewestOf(docs) == CHOOSE d \in docs : \A e \in docs : e.timestamp <= d.timestamp
\* the window the report in result was computed on
ReportWindow == WindowDocs(result.call.coin_id, result.report.record_count)
StrictlyRising(docs) ==
    \A d \in docs : \A e \in docs : d.timestamp < e.timestamp => d.price < e.price
StrictlyFalling(docs) ==
    \A d \in docs : \A e \in docs : d.timestamp < e.timestamp => d.price > e.price

\* C1: a trend report over a window whose prices strictly increase with the
\* timestamp has a positive normalized slope and no downtrend label, and one
\* whose prices strictly decrease has a negative slope and no uptrend label
\* (stated for the limits that can hold such a window, 4 and above).
C1_TrendFollowsChronology ==
    (IsTrend /\ Succeeded /\ result.call.limit >= 4) =>
        /\ StrictlyRising(ReportWindow) =>
              /\ result.norm_slope.n > 0
              /\ result.report.trend \notin {"Downtrend", "Strong Downtrend"}
        /\ StrictlyFalling(ReportWindow) =>
              /\ result.norm_slope.n < 0
              /\ result.report.trend \notin {"Uptrend", "Strong Uptrend"}

\* C2: a market report's open_price is the price of the oldest document of
\* its window and its close_price the price of the newest.
C2_OpenOldestCloseNewest ==
    (IsMarket /\ Succeeded) =>
        /\ result.report.record_count >= 2
        /\ Cardinality(ReportWindow) = result.report.record_count
        /\ result.report.open_price = OldestOf(ReportWindow).price
        /\ result.report.close_price = NewestOf(ReportWindow).price

\* a market report over three or more documents, recorded between documents
\* of another coin, whose oldest price is below its newest
C2_Witness ==
    /\ IsMarket /\ Succeeded
    /\ result.call.limit >= 3
    /\ result.report.record_count >= 3
    /\ result.report.open_price < result.report.close_price
    /\ StoredCount(result.call.coin_id) < Len(coin_prices)

\* C3: market analytics fails when the coin has fewer than 2 documents or the
\* limit is below 2; when at least 2 are retrieved it succeeds with
\* record_count the number retrieved, which is min(limit, stored) and at
\* most limit.
C3_MarketCountWithinLimit ==
    IsMarket =>
        /\ (StoredCount(result.call.coin_id) < 2 \/ result.call.limit < 2) =>
              (result.status = "error" /\ result.error = "ValueError")
        /\ result.call.retrieved >= 2 =>
              /\ Succeeded
              /\ result.report.record_count = result.call.retrieved
              /\ result.report.record_count =
                    Min(result.call.limit, StoredCount(result.call.coin_id))
              /\ result.report.record_count <= result.call.limit

\* C4: trend analysis fails with the insufficient-data error when fewer than
\* 4 documents are retrieved, also for 2 and 3, on which market analytics
\* succeeds; with 4 or more it succeeds and record_count is the number
\* retrieved.  For a limit >= 1 that number is min(limit, stored).
C4_TrendNeedsFour ==
    IsTrend =>
        LET coin_id == result.call.coin_id
            limit == result.call.limit
            k == result.call.retrieved
        IN  /\ limit >= 1 => k = Min(limit, StoredCount(coin_id))
            /\ k < 4 => /\ result.status = "error"
                        /\ result.error = "ValueError"
                        /\ result.found = k
            /\ k \in 2..3 =>
                  get_market_analytics(coin_id, limit,
                                       get_price_history(coin_id, limit)).status = "ok"
            /\ k >= 4 => /\ Succeeded
                         /\ result.report.record_count = k

\* trend analysis refused on exactly 3 retrieved documents
C4_Witness ==
    /\ IsTrend
    /\ result.status = "error"
    /\ result.call.retrieved = 3
    /\ result.call.limit >= 3

\* C5: a limit of zero or below is rejected with InvalidInput by both
\* analytics calls before the store is queried.
C5_InvalidLimitRejectedBeforeFetch ==
    ((IsMarket \/ IsTrend) /\ result.call.limit <= 0) =>
        /\ result.status = "error"
        /\ result.error = "InvalidInput"
        /\ result.call.fetches = 0

\* C6: in both reports net_change_percent is (close - open) / open * 100 for
\* the oldest price open and the newest price close of the window, and 0
\* when open is 0.
C6_NetChange ==
    ((IsMarket \/ IsTrend) /\ Succeeded) =>
        LET open == OldestOf(ReportWindow).price
            close == NewestOf(ReportWindow).price
            net == result.report.net_change_percent
        IN  /\ net.d > 0
            /\ IF open = 0 THEN net.n = 0
               ELSE net.n * open = 100 * (close - open) * net.d
            /\ (open = 10 /\ close = 11) => net = FromInt(10)
            /\ (open = 10 /\ close = 0) => net = FromInt(-100)

\* a trend report whose window opens at price 0 and closes above it
C6_Witness ==
    /\ IsTrend /\ Succeeded
    /\ result.call.limit >= 4
    /\ OldestOf(ReportWindow).price = 0
    /\ NewestOf(ReportWindow).price > 0
    /\ result.report.net_change_percent = FromInt(0)

\* the stored records of coin_id, in the order they were stored
RecordsOf(coin_id) == SelectSeq(coin_prices, LAMBDA d : d.coin_id = coin_id)
Reverse(s) == [i \in 1..Len(s) |-> s[Len(s) + 1 - i]]
\* the window of a call taken from the records of its coin alone
OwnWindow(coin_id, limit) == Limited(Reverse(RecordsOf(coin_id)), limit)
AnalyticsStep ==
    /\ result = NoResult
    /\ result'.call.op \in {"get_market_analytics", "get_trend_analysis"}

\* C14: an analytics call changes neither the tracked coins nor the stored
\* records, and what it returns (report or error) is determined by its
\* coin_id, its limit and the stored records of that coin alone: the same
\* call over an unchanged store returns the same, whatever is stored for
\* other coins.
C14_AnalyticsReadOnlyIdempotent ==
    /\ [][AnalyticsStep => (tracked' = tracked /\ coin_prices' = coin_prices)]_vars
    /\ [](/\ IsMarket =>
               result = get_market_analytics(result.call.coin_id, result.call.limit,
                            OwnWindow(result.call.coin_id, result.call.limit))
          /\ IsTrend =>
               result = get_trend_analysis(result.call.coin_id, result.call.limit,
                            OwnWindow(result.call.coin_id, result.call.limit)))

\* a trend report of one coin, computed while a record of the other coin
\* lies between its own in the store
C14_Witness ==
    /\ IsTrend
    /\ Succeeded
    /\ result.call.limit >= 4
    /\ \E i, j, k \in 1..Len(coin_prices) :
          /\ i < j /\ j < k
          /\ coin_prices[i].coin_id = result.call.coin_id
          /\ coin_prices[j].coin_id # result.call.coin_id
          /\ coin_prices[k].coin_id = result.call.coin_id

(***************************************************************************)
(* Strings.  A Python str is a TLA+ string; Chars gives the characters of  *)
(* every string the model handles, so that lower(), `in` and len() are     *)
(* computed character by character.                                        *)
(***************************************************************************)
Chars ==
       ("" :> <<>>)
    @@ ("-1" :> <<"-", "1">>)
    @@ ("-peg" :> <<"-", "p", "e", "g">>)
    @@ ("." :> <<".">>)
    @@ ("0" :> <<"0">>)
    @@ ("1" :> <<"1">>)
    @@ ("1.5" :> <<"1", ".", "5">>)
    @@ ("10" :> <<"1", "0">>)
    @@ ("2" :> <<"2">>)
    @@ ("3" :> <<"3">>)
    @@ ("4" :> <<"4">>)
    @@ ("5" :> <<"5">>)
    @@ ("99" :> <<"9", "9">>)
    @@ ("BTC" :> <<"B", "T", "C">>)
    @@ ("Binance Coin" :> <<"B", "i", "n", "a", "n", "c", "e", " ", "C", "o", "i", "n">>)
    @@ ("Bitcoin" :> <<"B", "i", "t", "c", "o", "i", "n">>)
    @@ ("Bitcoin Fake" :> <<"B", "i", "t", "c", "o", "i", "n", " ", "F", "a", "k", "e">>)
    @@ ("Cardano" :> <<"C", "a", "r", "d", "a", "n", "o">>)
    @@ ("Dogecoin" :> <<"D", "o", "g", "e", "c", "o", "i", "n">>)
    @@ ("Ethereum" :> <<"E", "t", "h", "e", "r", "e", "u", "m">>)
    @@ ("LongCoin" :> <<"L", "o", "n", "g", "C", "o", "i", "n">>)
    @@ ("PEPE" :> <<"P", "E", "P", "E">>)
    @@ ("Pepe" :> <<"P", "e", "p", "e">>)
    @@ ("Pepe Token" :> <<"P", "e", "p", "e", " ", "T", "o", "k", "e", "n">>)
    @@ ("Pepe Two" :> <<"P", "e", "p", "e", " ", "T", "w", "o">>)
    @@ ("PepeCoin" :> <<"P", "e", "p", "e", "C", "o", "i", "n">>)
    @@ ("Ripple" :> <<"R", "i", "p", "p", "l", "e">>)
    @@ ("SOLANA" :> <<"S", "O", "L", "A", "N", "A">>)
    @@ ("Sol" :> <<"S", "o", "l">>)
    @@ ("Solana" :> <<"S", "o", "l", "a", "n", "a">>)
    @@ ("SpamCoin" :> <<"S", "p", "a", "m", "C", "o", "i", "n">>)
    @@ ("Staked Ether" :> <<"S", "t", "a", "k", "e", "d", " ", "E", "t", "h", "e", "r">>)
    @@ ("TenCoin" :> <<"T", "e", "n", "C", "o", "i", "n">>)
    @@ ("USD-Peg" :> <<"U", "S", "D", "-", "P", "e", "g">>)
    @@ ("Wrapped Bitcoin" :> <<"W", "r", "a", "p", "p", "e", "d", " ", "B", "i", "t", "c", "o", "i", "n">>)
    @@ ("YES" :> <<"Y", "E", "S">>)
    @@ ("abc" :> <<"a", "b", "c">>)
    @@ ("abcdefghij" :> <<"a", "b", "c", "d", "e", "f", "g", "h", "i", "j">>)
    @@ ("abcdefghijk" :> <<"a", "b", "c", "d", "e", "f", "g", "h", "i", "j", "k">>)
    @@ ("ada" :> <<"a", "d", "a">>)
    @@ ("binance coin" :> <<"b", "i", "n", "a", "n", "c", "e", " ", "c", "o", "i", "n">>)
    @@ ("binancecoin" :> <<"b", "i", "n", "a", "n", "c", "e", "c", "o", "i", "n">>)
    @@ ("bitcoin" :> <<"b", "i", "t", "c", "o", "i", "n">>)
    @@ ("bitcoin fake" :> <<"b", "i", "t", "c", "o", "i", "n", " ", "f", "a", "k", "e">>)
    @@ ("bitcoin-fake" :> <<"b", "i", "t", "c", "o", "i", "n", "-", "f", "a", "k", "e">>)
    @@ ("bnb" :> <<"b", "n", "b">>)
    @@ ("btc" :> <<"b", "t", "c">>)
    @@ ("cardano" :> <<"c", "a", "r", "d", "a", "n", "o">>)
    @@ ("doge" :> <<"d", "o", "g", "e">>)
    @@ ("dogecoin" :> <<"d", "o", "g", "e", "c", "o", "i", "n">>)
    @@ ("eth" :> <<"e", "t", "h">>)
    @@ ("ethereum" :> <<"e", "t", "h", "e", "r", "e", "u", "m">>)
    @@ ("ghost" :> <<"g", "h", "o", "s", "t">>)
    @@ ("longcoin" :> <<"l", "o", "n", "g", "c", "o", "i", "n">>)
    @@ ("n" :> <<"n">>)
    @@ ("no" :> <<"n", "o">>)
    @@ ("pepe" :> <<"p", "e", "p", "e">>)
    @@ ("pepe token" :> <<"p", "e", "p", "e", " ", "t", "o", "k", "e", "n">>)
    @@ ("pepe two" :> <<"p", "e", "p", "e", " ", "t", "w", "o">>)
    @@ ("pepe-2" :> <<"p", "e", "p", "e", "-", "2">>)
    @@ ("pepe-token" :> <<"p", "e", "p", "e", "-", "t", "o", "k", "e", "n">>)
    @@ ("pepecoin" :> <<"p", "e", "p", "e", "c", "o", "i", "n">>)
    @@ ("ripple" :> <<"r", "i", "p", "p", "l", "e">>)
    @@ ("sol" :> <<"s", "o", "l">>)
    @@ ("solana" :> <<"s", "o", "l", "a", "n", "a">>)
    @@ ("spam" :> <<"s", "p", "a", "m">>)
    @@ ("spam-coin-peg" :> <<"s", "p", "a", "m", "-", "c", "o", "i", "n", "-", "p", "e", "g">>)
    @@ ("spam.x" :> <<"s", "p", "a", "m", ".", "x">>)
    @@ ("spamcoin" :> <<"s", "p", "a", "m", "c", "o", "i", "n">>)
    @@ ("staked" :> <<"s", "t", "a", "k", "e", "d">>)
    @@ ("staked ether" :> <<"s", "t", "a", "k", "e", "d", " ", "e", "t", "h", "e", "r">>)
    @@ ("steth" :> <<"s", "t", "e", "t", "h">>)
    @@ ("tencoin" :> <<"t", "e", "n", "c", "o", "i", "n">>)
    @@ ("token" :> <<"t", "o", "k", "e", "n">>)
    @@ ("usd-peg" :> <<"u", "s", "d", "-", "p", "e", "g">>)
    @@ ("usdp" :> <<"u", "s", "d", "p">>)
    @@ ("wbtc" :> <<"w", "b", "t", "c">>)
    @@ ("wrapped" :> <<"w", "r", "a", "p", "p", "e", "d">>)
    @@ ("wrapped bitcoin" :> <<"w", "r", "a", "p", "p", "e", "d", " ", "b", "i", "t", "c", "o", "i", "n">>)
    @@ ("xrp" :> <<"x", "r", "p">>)
    @@ ("y" :> <<"y">>)
    @@ ("yes" :> <<"y", "e", "s">>)

Strings == DOMAIN Chars

UpperCase == <<"A", "B", "C", "D", "E", "F", "G", "H", "I", "J", "K", "L", "M",
               "N", "O", "P", "Q", "R", "S", "T", "U", "V", "W", "X", "Y", "Z">>
LowerCase == <<"a", "b", "c", "d", "e", "f", "g", "h", "i", "j", "k", "l", "m",
               "n", "o", "p", "q", "r", "s", "t", "u", "v", "w", "x", "y", "z">>

LowerChar(c) ==
    IF \E i \in 1..Len(UpperCase) : UpperCase[i] = c
    THEN LowerCase[CHOOSE i \in 1..Len(UpperCase) : UpperCase[i] = c]
    ELSE c

\* the characters of str.lower(), for every string of the model
LowerCharsOf == [str \in Strings |-> [i \in 1..Len(Chars[str]) |-> LowerChar(Chars[str][i])]]
LowerChars(str) == LowerCharsOf[str]

\* `sub in chars` for two character sequences
Contains(chars, sub) ==
    \E i \in 1..(Len(chars) - Len(sub) + 1) : SubSeq(chars, i, i + Len(sub) - 1) = sub

\* str.lower(), for every string of the model
LowerOf == [str \in Strings |-> CHOOSE s \in Strings : Chars[s] = LowerChars(str)]
Lower(str) == LowerOf[str]

(***************************************************************************)
(* Tracked coins and the batch recording of their prices.                  *)
(***************************************************************************)
\* coins a caller may ask to track: coin_id, symbol and name as passed in
Candidates ==
    {[coin_id |-> "bitcoin", symbol |-> "BTC", name |-> "Bitcoin"],
     [coin_id |-> "ethereum", symbol |-> "eth", name |-> "Ethereum"],
     [coin_id |-> "solana", symbol |-> "Sol", name |-> "Solana"],
     [coin_id |-> "solana", symbol |-> "SOLANA", name |-> "Solana"]}

\* the order of the names under order_by("name")
NameOrder == <<"Binance Coin", "Bitcoin", "Ethereum", "Pepe", "Pepe Two", "Solana", "TenCoin">>
NameRank(name) == CHOOSE i \in 1..Len(NameOrder) : NameOrder[i] = name

\* a variant that saves without looking for the coin_id first
AddTrackedCoinUnchecked(coin_id, symbol, name) ==
    LET doc == [coin_id |-> coin_id, symbol |-> Lower(symbol), name |-> name, is_active |-> TRUE]
    IN  [status |-> "ok", value |-> doc, tracked |-> tracked \cup {doc}]

\* CryptoTracker.add_tracked_coin: its outcome and the collection it leaves
add_tracked_coin(coin_id, symbol, name) ==
    IF \E d \in tracked : d.coin_id = coin_id
    THEN [status |-> "error", error |-> "ValueError", tracked |-> tracked]
    ELSE LET doc == [coin_id |-> coin_id, symbol |-> Lower(symbol),
                     name |-> name, is_active |-> TRUE]
         IN  [status |-> "ok", value |-> doc, tracked |-> tracked \cup {doc}]

AddTrackedCoin ==
    /\ result = NoResult
    /\ \E c \in Candidates :
        LET call == [op |-> "add_tracked_coin", coin_id |-> c.coin_id, symbol |-> c.symbol]
            done == add_tracked_coin(c.coin_id, c.symbol, c.name)
        IN  /\ tracked' = done.tracked
            /\ result' = IF done.status = "ok"
                         THEN [call |-> call, status |-> "ok", value |-> done.value]
                         ELSE [call |-> call, status |-> "error", error |-> done.error]
    /\ UNCHANGED <<coin_prices, clock, arg, pc, connection>>

\* a variant that removes the price records before it looks at the count
DeleteTrackedCoinPricesFirst(coin_id, delete_prices) ==
    LET matching == {d \in tracked : d.coin_id = coin_id}
        others == SelectSeq(coin_prices, LAMBDA d : d.coin_id # coin_id)
        left == IF delete_prices THEN others ELSE coin_prices
    IN  IF Cardinality(matching) = 0
        THEN [status |-> "error", error |-> "ValueError", tracked |-> tracked,
              coin_prices |-> left]
        ELSE [status |-> "ok", tracked |-> tracked \ matching, coin_prices |-> left]

\* CryptoTracker.delete_tracked_coin: its outcome and the collections it leaves
delete_tracked_coin(coin_id, delete_prices) ==
    LET matching == {d \in tracked : d.coin_id = coin_id}
        deleted_count == Cardinality(matching)
        others == SelectSeq(coin_prices, LAMBDA d : d.coin_id # coin_id)
    IN  IF deleted_count = 0
        THEN [status |-> "error", error |-> "ValueError", tracked |-> tracked,
              coin_prices |-> coin_prices]
        ELSE [status |-> "ok", tracked |-> tracked \ matching,
              coin_prices |-> IF delete_prices THEN others ELSE coin_prices]

DeleteTrackedCoin ==
    /\ result = NoResult
    /\ \E coin_id \in CoinIds, delete_prices \in BOOLEAN :
        LET call == [op |-> "delete_tracked_coin", coin_id |-> coin_id,
                     delete_prices |-> delete_prices]
            done == delete_tracked_coin(coin_id, delete_prices)
        IN  /\ tracked' = done.tracked
            /\ coin_prices' = done.coin_prices
            /\ result' = IF done.status = "ok"
                         THEN [call |-> call, status |-> "ok"]
                         ELSE [call |-> call, status |-> "error", error |-> done.error]
    /\ UNCHANGED <<clock, arg, pc, connection>>

\* CryptoTracker.list_tracked_coins: TrackedCoinDocument.objects.order_by("name")
RECURSIVE OrderByName(_)
OrderByName(docs) ==
    IF docs = {} THEN <<>>
    ELSE LET d == CHOOSE x \in docs : \A y \in docs : NameRank(x.name) <= NameRank(y.name)
         IN  <<d>> \o OrderByName(docs \ {d})

list_tracked_coins == OrderByName(tracked)

\* what the price source answers for a coin during a batch: it raises, or
\* it gives the price of the moment (the lowest of the coin's prices)
BatchQuotes(coin_id) ==
    {q \in SourceOutcomes(coin_id) :
        q.raised \/ \A p \in SourcePrices(coin_id) : q.price <= p}

\* what the price source answers during one batch, per tracked coin
BatchOutcomes ==
    {o \in [{d.coin_id : d \in tracked} ->
                UNION {BatchQuotes(c) : c \in CoinIds}] :
        \A c \in DOMAIN o : o[c] \in BatchQuotes(c)}

\* a variant whose loop lets the first failure escape
RECURSIVE RecordLoopAborting(_, _, _)
RecordLoopAborting(tracked_coins, outcome, acc) ==
    IF tracked_coins = <<>> THEN acc
    ELSE LET t == Head(tracked_coins)
             o == outcome[t.coin_id]
             doc == CoinPriceDocument(t.coin_id, o.price, acc.clock)
             after == [acc EXCEPT !.attempts = Append(@, t.coin_id),
                                  !.coin_prices = Append(@, doc),
                                  !.clock = @ + 1,
                                  !.prices = Append(@, doc)]
         IN  IF o.raised
             THEN [acc EXCEPT !.attempts = Append(@, t.coin_id), !.raised = TRUE]
             ELSE RecordLoopAborting(Tail(tracked_coins), outcome, after)

\* the for loop of CryptoTracker.record_prices_for_all_tracked: each tracked
\* coin in turn goes through record_price_for_coin; an Exception of that call
\* is logged and the loop goes on, anything else (an interrupt) leaves the
\* loop and the batch.  acc carries the store, the clock, the list `prices`
\* being built and the calls made so far.
RECURSIVE RecordLoop(_, _, _)
RecordLoop(tracked_coins, outcome, acc) ==
    IF tracked_coins = <<>> THEN acc
    ELSE LET t == Head(tracked_coins)
             o == outcome[t.coin_id]
             doc == CoinPriceDocument(t.coin_id, o.price, acc.clock)
             after == IF o.raised
                      THEN [acc EXCEPT !.attempts = Append(@, t.coin_id)]
                      ELSE [acc EXCEPT !.attempts = Append(@, t.coin_id),
                                       !.coin_prices = Append(@, doc),
                                       !.clock = @ + 1,
                                       !.prices = Append(@, doc)]
         IN  IF o.raised /\ o.error = Interrupted
             THEN [after EXCEPT !.raised = TRUE]
             ELSE RecordLoop(Tail(tracked_coins), outcome, after)

\* CryptoTracker.record_prices_for_all_tracked
RecordPricesForAllTracked ==
    /\ result = NoResult
    /\ clock + Cardinality(tracked) <= MaxRecords
    /\ \E outcome \in BatchOutcomes :
        LET tracked_coins == list_tracked_coins
            start == [coin_prices |-> coin_prices, clock |-> clock, prices |-> <<>>,
                      attempts |-> <<>>, raised |-> FALSE]
            done == IF tracked_coins = <<>> THEN start
                    ELSE RecordLoop(tracked_coins, outcome, start)
        IN  /\ coin_prices' = done.coin_prices
            /\ clock' = done.clock
            /\ result' = [call |-> [op |-> "record_prices_for_all_tracked",
                                    outcome |-> outcome,
                                    stored_before |-> Len(coin_prices)],
                          status |-> IF done.raised THEN "error" ELSE "ok",
                          error |-> IF done.raised THEN Interrupted ELSE "none",
                          value |-> done.prices,
                          attempts |-> done.attempts]
    /\ UNCHANGED <<tracked, arg, pc, connection>>

NextBatch == AddTrackedCoin \/ RecordPricesForAllTracked \/ Continue

SpecBatch == Init /\ [][NextBatch]_vars

\* tracked coins are added and deleted between batches
NextCrud == AddTrackedCoin \/ DeleteTrackedCoin \/ RecordPricesForAllTracked \/ Continue

SpecCrud == Init /\ [][NextCrud]_vars

(***************************************************************************)
(* Properties of the batch recording.                                      *)
(***************************************************************************)
LastOf(s) == s[Len(s)]
IsBatch == result.call.op = "record_prices_for_all_tracked"
TrackedIds == {d.coin_id : d \in tracked}
NameOfTracked(coin_id) == (CHOOSE d \in tracked : d.coin_id = coin_id).name
\* the tracked coins whose price the source gave during the batch in result
BatchSucceeded == {c \in TrackedIds : ~result.call.outcome[c].raised}
\* the tracked coins during whose fetch the batch in result was interrupted
BatchInterrupted == {c \in TrackedIds : result.call.outcome[c].error = Interrupted}
\* the documents the batch in result added to the store
BatchStored == SubSeq(coin_prices, result.call.stored_before + 1, Len(coin_prices))

\* C10: a batch attempts every tracked coin exactly once, in the order of
\* the list (by name), never raises because a coin failed, and returns
\* exactly the snapshots it stored, in attempt order: one per coin that did
\* not fail.  A failure is an Exception of the coin's fetch or save; the
\* batch raises only when it is interrupted, and then with the interrupt.
C10_BatchSurvivesFailures ==
    /\ (IsBatch /\ result.status = "error") =>
          /\ result.error = Interrupted
          /\ result.call.outcome[LastOf(result.attempts)].error = Interrupted
    /\ (IsBatch /\ BatchInterrupted = {}) =>
        /\ result.status = "ok"
        /\ Len(result.attempts) = Cardinality(TrackedIds)
        /\ {result.attempts[i] : i \in 1..Len(result.attempts)} = TrackedIds
        /\ \A i \in 1..Len(result.attempts) : \A j \in 1..Len(result.attempts) :
              i < j => NameRank(NameOfTracked(result.attempts[i]))
                         < NameRank(NameOfTracked(result.attempts[j]))
        /\ Len(result.value) = Cardinality(BatchSucceeded)
        /\ {result.value[i].coin_id : i \in 1..Len(result.value)} = BatchSucceeded
        /\ \A i \in 1..Len(result.value) :
              /\ result.value[i].price = result.call.outcome[result.value[i].coin_id].price
              /\ \A j \in 1..Len(result.value) :
                    i < j => NameRank(NameOfTracked(result.value[i].coin_id))
                               < NameRank(NameOfTracked(result.value[j].coin_id))
        /\ result.value = BatchStored

\* three tracked coins, the second of which failed: two snapshots returned,
\* the third coin's among them
C10_Witness ==
    /\ IsBatch
    /\ result.status = "ok"
    /\ Cardinality(TrackedIds) = 3
    /\ Cardinality(BatchSucceeded) = 2
    /\ result.call.outcome[result.attempts[2]].raised
    /\ Len(result.value) = 2
    /\ result.value[2].coin_id = result.attempts[3]

(***************************************************************************)
(* Properties of adding and deleting tracked coins.                        *)
(***************************************************************************)
AddStep == result = NoResult /\ result'.call.op = "add_tracked_coin"
DeleteStep == result = NoResult /\ result'.call.op = "delete_tracked_coin"
HasNoCapital(str) ==
    \A i \in 1..Len(Chars[str]) : \A k \in 1..Len(UpperCase) : Chars[str][i] # UpperCase[k]
SameLetters(str, lowered) ==
    /\ Len(Chars[str]) = Len(Chars[lowered])
    /\ \A i \in 1..Len(Chars[str]) :
          \/ Chars[str][i] = Chars[lowered][i]
          \/ \E k \in 1..Len(UpperCase) :
                Chars[str][i] = UpperCase[k] /\ Chars[lowered][i] = LowerCase[k]

\* C16: the tracked coins never hold two entries with one coin_id; an add
\* of a coin_id that is tracked fails and leaves the tracked coins and the
\* price records as they are; an add of a coin_id that is not tracked
\* stores one new entry, whose symbol is the given symbol in lowercase.
C16_OneEntryPerCoinId ==
    /\ [](\A d, e \in tracked : d.coin_id = e.coin_id => d = e)
    /\ [][AddStep =>
            /\ coin_prices' = coin_prices
            /\ IF result'.call.coin_id \in TrackedIds
               THEN /\ result'.status = "error"
                    /\ tracked' = tracked
               ELSE /\ result'.status = "ok"
                    /\ tracked' = tracked \cup {result'.value}
                    /\ result'.value.coin_id = result'.call.coin_id
                    /\ HasNoCapital(result'.value.symbol)
                    /\ SameLetters(result'.call.symbol, result'.value.symbol)
         ]_vars

\* solana is tracked with the symbol stored in lowercase, its prices are
\* recorded, and an add of solana under another symbol has just failed
C16_Witness ==
    /\ result.call.op = "add_tracked_coin"
    /\ result.status = "error"
    /\ result.call.coin_id = "solana"
    /\ result.call.symbol = "SOLANA"
    /\ \E d \in tracked : d.coin_id = "solana" /\ d.symbol = "sol"
    /\ \E i \in 1..Len(coin_prices) : coin_prices[i].coin_id = "solana"

\* C17: a delete of a coin_id that is not tracked fails and leaves the
\* tracked coins and every price record as they are, also with
\* delete_prices true and price records of that coin_id in the store; a
\* delete of a tracked coin_id removes its entry and no other, and removes
\* the price records of that coin_id, and no other, exactly when
\* delete_prices is true.
C17_DeleteTrackedCoin ==
    [][DeleteStep =>
        IF result'.call.coin_id \in TrackedIds
        THEN /\ result'.status = "ok"
             /\ tracked' = {d \in tracked : d.coin_id # result'.call.coin_id}
             /\ coin_prices' =
                  IF result'.call.delete_prices
                  THEN SelectSeq(coin_prices, LAMBDA d : d.coin_id # result'.call.coin_id)
                  ELSE coin_prices
        ELSE /\ result'.status = "error"
             /\ tracked' = tracked
             /\ coin_prices' = coin_prices
      ]_vars

\* a delete with delete_prices of a coin that is no longer tracked has just
\* failed, and the price records of that coin are in the store
C17_Witness ==
    /\ result.call.op = "delete_tracked_coin"
    /\ result.status = "error"
    /\ result.call.delete_prices
    /\ result.call.coin_id \notin TrackedIds
    /\ \E i \in 1..Len(coin_prices) : coin_prices[i].coin_id = result.call.coin_id
    /\ tracked # {}

(***************************************************************************)
(* The calculators on their own: Init draws an input, an action applies    *)
(* the calculator to it.                                                   *)
(***************************************************************************)
SeqsUpTo(S, k) == UNION {[1..m -> S] : m \in 0..k}

\* prices whose windows reach cv = 0.01 and cv = 0.05 exactly, a zero mean
\* and a negative mean; small enough for TLC's 32-bit integers
VolatilityPrices == {-1, 0, 1, 19, 20, 21, 99, 100, 101}
\* prices whose windows reach a normalized slope of 0.1 and 0.5 exactly
TrendPrices == {-1, 0, 1, 99, 100, 101, 499, 500, 501}

CalcInputs ==
    {[kind |-> "volatility", prices |-> p] : p \in SeqsUpTo(VolatilityPrices, MaxWindow)}
    \cup {[kind |-> "trend", prices |-> p] : p \in SeqsUpTo(TrendPrices, MaxWindow)}
    \cup {[kind |-> "momentum", net_change_percent |-> FromInt(a), norm_slope |-> Rat(b, 100)] :
            a \in -MaxMag..MaxMag, b \in -MaxMag..MaxMag}

InitCalc ==
    /\ tracked = {}
    /\ coin_prices = <<>>
    /\ clock = 0
    /\ arg \in CalcInputs
    /\ result = NoResult
    /\ pc = Idle
    /\ connection = ServiceConnection

CalcVolatility ==
    /\ arg.kind = "volatility"
    /\ result = NoResult
    /\ result' = [call |-> [op |-> "_calculate_volatility"], value |-> _calculate_volatility(arg.prices)]
    /\ UNCHANGED <<tracked, coin_prices, clock, arg, pc, connection>>

CalcTrend ==
    /\ arg.kind = "trend"
    /\ result = NoResult
    /\ result' = [call |-> [op |-> "_calculate_trend"], value |-> _calculate_trend(arg.prices)]
    /\ UNCHANGED <<tracked, coin_prices, clock, arg, pc, connection>>

CalcMomentum ==
    /\ arg.kind = "momentum"
    /\ result = NoResult
    /\ result' = [call |-> [op |-> "_calculate_momentum"],
                  value |-> _calculate_momentum(arg.net_change_percent, arg.norm_slope)]
    /\ UNCHANGED <<tracked, coin_prices, clock, arg, pc, connection>>

NextCalc == CalcVolatility \/ CalcTrend \/ CalcMomentum

SpecCalc == InitCalc /\ [][NextCalc]_vars

(***************************************************************************)
(* Properties of the calculators, stated on integers: a rational n/d with  *)
(* d > 0 exceeds 1/2 when 2n > d, and so on.                               *)
(***************************************************************************)
IsMomentum == result.call.op = "_calculate_momentum"
IsTrendCalc == result.call.op = "_calculate_trend"
IsVolatility == result.call.op = "_calculate_volatility"

\* raw momentum |net| * 0.5 + |slope| * 20 as the fraction RawNum / RawDen
RawNum == Abs(arg.net_change_percent.n) * arg.norm_slope.d
            + 40 * Abs(arg.norm_slope.n) * arg.net_change_percent.d
RawDen == 2 * arg.net_change_percent.d * arg.norm_slope.d

\* C7: the momentum score is min(10, |net_change_percent| * 0.5 +
\* |norm_slope| * 20) for inputs of either sign: within [0, 10], exactly 10
\* when the raw value exceeds 10, and never lifted by the lower clamp (the
\* raw value is never negative).
C7_MomentumClamped ==
    IsMomentum =>
        LET v == result.value
        IN  /\ v.d > 0 /\ v.n >= 0 /\ v.n <= 10 * v.d
            /\ RawNum >= 0
            /\ IF RawNum > 10 * RawDen THEN v = FromInt(10)
               ELSE v.n * RawDen = RawNum * v.d

\* both inputs negative and a raw value above 10: the score is exactly 10
C7_Witness ==
    /\ IsMomentum
    /\ arg.net_change_percent.n < 0 /\ arg.norm_slope.n < 0
    /\ RawNum > 10 * RawDen
    /\ result.value = FromInt(10)

\* C8: the trend label follows the normalized slope by first match of
\* > 0.5, > 0.1, < -0.5, < -0.1, else Sideways, all strict: exactly 0.1 and
\* exactly -0.1 are Sideways, exactly 0.5 is Uptrend; a zero mean price gives
\* slope 0 and Sideways.
C8_TrendThresholds ==
    (IsTrendCalc /\ arg.prices # <<>>) =>
        LET ns == result.value.norm_slope
            label == result.value.trend
        IN  /\ ns.d > 0
            /\ label = (IF 2 * ns.n > ns.d THEN "Strong Uptrend"
                        ELSE IF 10 * ns.n > ns.d THEN "Uptrend"
                        ELSE IF 2 * ns.n < -ns.d THEN "Strong Downtrend"
                        ELSE IF 10 * ns.n < -ns.d THEN "Downtrend"
                        ELSE "Sideways")
            /\ (10 * ns.n = ns.d \/ 10 * ns.n = -ns.d) => label = "Sideways"
            /\ 2 * ns.n = ns.d => label = "Uptrend"
            /\ SumSeq(arg.prices) = 0 => (ns.n = 0 /\ label = "Sideways")

\* a price sequence whose normalized slope is exactly 0.1, labelled Sideways
C8_Witness ==
    /\ IsTrendCalc
    /\ Len(arg.prices) >= 2
    /\ result.value.norm_slope = [n |-> 1, d |-> 10]
    /\ result.value.trend = "Sideways"

\* n * sum(p^2) - sum(p)^2 of the input: n * (n - 1) times the sample variance
SpreadOfArg ==
    Len(arg.prices) * SumSeq([i \in 1..Len(arg.prices) |-> arg.prices[i] * arg.prices[i]])
        - SumSeq(arg.prices) * SumSeq(arg.prices)

\* cv < num/den for the input (num, den > 0): cv^2 = n * Spread / ((n-1) * S^2)
\* when the mean is positive; cv <= 0 when the mean is zero or negative
CvBelow(num, den) ==
    LET n == Len(arg.prices)
        s == SumSeq(arg.prices)
    IN  \/ s <= 0
        \/ den * den * n * SpreadOfArg < num * num * (n - 1) * s * s

\* C9: volatility is Unknown below 2 prices; otherwise Low for cv < 0.01,
\* Medium for 0.01 <= cv < 0.05, High for cv >= 0.05, with cv the sample
\* standard deviation over the mean (0 for a zero mean); a constant sequence
\* is Low.
C9_VolatilityClasses ==
    IsVolatility =>
        /\ Len(arg.prices) < 2 => result.value = "Unknown"
        /\ Len(arg.prices) >= 2 =>
              /\ result.value = (IF CvBelow(1, 100) THEN "Low"
                                 ELSE IF CvBelow(5, 100) THEN "Medium"
                                 ELSE "High")
              /\ SpreadOfArg = 0 => result.value = "Low"

\* prices with cv exactly 0.01 (such as 99, 100, 101), classified Medium
C9_Witness ==
    /\ IsVolatility
    /\ Len(arg.prices) >= 2
    /\ SumSeq(arg.prices) > 0
    /\ 10000 * Len(arg.prices) * SpreadOfArg
          = (Len(arg.prices) - 1) * SumSeq(arg.prices) * SumSeq(arg.prices)
    /\ result.value = "Medium"

(***************************************************************************)
(* The coin search: the priority table, then the filtered scan of the      *)
(* catalog of the price source.                                            *)
(***************************************************************************)
\* longest catalog the price source returns
MaxCatalog == 2

Coin(id, symbol, name) == [id |-> id, symbol |-> symbol, name |-> name]

MAJOR_COINS ==
       ("bitcoin" :> Coin("bitcoin", "btc", "Bitcoin"))
    @@ ("btc" :> Coin("bitcoin", "btc", "Bitcoin"))
    @@ ("ethereum" :> Coin("ethereum", "eth", "Ethereum"))
    @@ ("eth" :> Coin("ethereum", "eth", "Ethereum"))
    @@ ("solana" :> Coin("solana", "sol", "Solana"))
    @@ ("sol" :> Coin("solana", "sol", "Solana"))
    @@ ("ripple" :> Coin("ripple", "xrp", "Ripple"))
    @@ ("xrp" :> Coin("ripple", "xrp", "Ripple"))
    @@ ("cardano" :> Coin("cardano", "ada", "Cardano"))
    @@ ("ada" :> Coin("cardano", "ada", "Cardano"))
    @@ ("dogecoin" :> Coin("dogecoin", "doge", "Dogecoin"))
    @@ ("doge" :> Coin("dogecoin", "doge", "Dogecoin"))
    @@ ("binancecoin" :> Coin("binancecoin", "bnb", "Binance Coin"))
    @@ ("bnb" :> Coin("binancecoin", "bnb", "Binance Coin"))

\* JSON null as the value of a key; no string of a catalog is spelled so
Null == "null (JSON)"
\* an element of the body that is no object: a number, a string, null, or
\* a key of a body that is an object
NotAnObject == [json |-> "no object"]

\* entries the catalog of the price source may hold; a key that an entry
\* lacks reads as "" (coin.get(key, ""))
CatalogEntries ==
    {NotAnObject,
     Coin(Null, "pepe", "Pepe"),
     Coin("pepe", "PEPE", "Pepe"),
     Coin("pepe-2", "pepe", "Pepe Two"),
     Coin("pepecoin", "pepecoin", "PepeCoin"),
     Coin("pepe-token", "pepe", "Pepe Token"),
     Coin("wbtc", "wbtc", "Wrapped Bitcoin"),
     Coin("usdp", "usdp", "USD-Peg"),
     Coin("steth", "steth", "Staked Ether"),
     Coin("spam-coin-peg", "spam.x", "SpamCoin"),
     Coin("longcoin", "abcdefghijk", "LongCoin"),
     Coin("tencoin", "abcdefghij", "TenCoin"),
     Coin("ghost", "ghost", ""),
     Coin("bitcoin-fake", "btc", "Bitcoin Fake"),
     Coin("binancecoin", "bnb", "Binance Coin")}

Queries ==
    {"pepe", "PEPE", "Pepe Two", "pepecoin", "wbtc", "usdp", "steth", "spamcoin", "spam",
     "longcoin", "tencoin", "ghost", "binance coin", "btc", "BTC", "bitcoin", "xrp", "Ripple"}

SearchLimits == -1..(MaxCatalog + 1)

\* the body client.get_supported_coins_with_details() returned is a list
CatalogBody(all_coins) ==
    [raised |-> FALSE, error |-> "none", body |-> "list", all_coins |-> all_coins]
\* the body is JSON null (or a number), which the client returns as it is:
\* the for loop cannot iterate over it
NullBody == [raised |-> FALSE, error |-> "none", body |-> "null", all_coins |-> <<>>]
\* the call raises: RuntimeError for a failed request or a body that is not
\* JSON, or the interrupt that arrived during the request
CatalogRaises(error) == [raised |-> TRUE, error |-> error, body |-> "none", all_coins |-> <<>>]

\* what client.get_supported_coins_with_details() may do
CatalogOutcomes ==
    {CatalogBody(c) : c \in SeqsUpTo(CatalogEntries, MaxCatalog)}
    \cup {NullBody}
    \cup {CatalogRaises(e) : e \in {SourceError, Interrupted}}

\* coin.get(key, "").lower() raises AttributeError for this element of the
\* body: it has no get, or the value of one of the keys has no lower
Malformed(coin) ==
    \/ DOMAIN coin # {"id", "symbol", "name"}
    \/ Null \in {coin.symbol, coin.id, coin.name}

BlacklistKeywords == <<"-peg", "wrapped", "token", "staked">>

\* a variant that looks for the keywords in the name as the catalog spells it
PassesFiltersCaseSensitive(coin) ==
    LET symbol == LowerChars(coin.symbol)
        coin_id == LowerChars(coin.id)
        name == Chars[coin.name]
    IN  /\ symbol # <<>> /\ coin_id # <<>> /\ name # <<>>
        /\ ~(Contains(symbol, Chars["."]) \/ Len(symbol) > 10)
        /\ ~\E k \in 1..Len(BlacklistKeywords) : Contains(name, Chars[BlacklistKeywords[k]])

\* the quality and relevance filters of the scan: TRUE when coin is kept
PassesFilters(coin) ==
    LET symbol == LowerChars(coin.symbol)
        coin_id == LowerChars(coin.id)
        name == LowerChars(coin.name)
    IN  /\ symbol # <<>> /\ coin_id # <<>> /\ name # <<>>
        /\ ~(Contains(symbol, Chars["."]) \/ Len(symbol) > 10)
        /\ ~\E k \in 1..Len(BlacklistKeywords) : Contains(name, Chars[BlacklistKeywords[k]])

\* query in (symbol, coin_id, name), query being lowercased characters
MatchesQuery(query, coin) ==
    query \in {LowerChars(coin.symbol), LowerChars(coin.id), LowerChars(coin.name)}

\* the for loop of search_coins, with its break: the results, or the
\* error of the first element it cannot read
RECURSIVE ScanCatalog(_, _, _, _)
ScanCatalog(all_coins, query, limit, results) ==
    IF all_coins = <<>> THEN [error |-> "none", results |-> results]
    ELSE LET coin == Head(all_coins)
         IN  IF Malformed(coin) THEN [error |-> "AttributeError", results |-> results]
             ELSE IF PassesFilters(coin) /\ MatchesQuery(query, coin)
             THEN IF Len(results) + 1 >= limit
                  THEN [error |-> "none", results |-> Append(results, coin)]
                  ELSE ScanCatalog(Tail(all_coins), query, limit, Append(results, coin))
             ELSE ScanCatalog(Tail(all_coins), query, limit, results)

\* search_coins from the fetch of the catalog on; lowered is the query
Fallback(call, lowered, limit, source) ==
    LET scan == ScanCatalog(source.all_coins, lowered, limit, <<>>)
    IN  IF source.raised
        THEN [call |-> call, status |-> "error", error |-> source.error]
        ELSE IF source.body # "list"
        THEN [call |-> call, status |-> "error", error |-> "TypeError"]
        ELSE IF scan.error # "none"
        THEN [call |-> call, status |-> "error", error |-> scan.error]
        ELSE [call |-> call, status |-> "ok", value |-> scan.results]

\* a variant that looks the query up in the table as it was typed
SearchCoinsAsTyped(query, limit, source) ==
    LET typed == Chars[query]
        call(fetches) == [op |-> "search_coins", query |-> query, limit |-> limit,
                          fetches |-> fetches]
    IN  IF \E key \in DOMAIN MAJOR_COINS : Chars[key] = typed
        THEN [call |-> call(0), status |-> "ok",
              value |-> <<MAJOR_COINS[CHOOSE key \in DOMAIN MAJOR_COINS : Chars[key] = typed]>>]
        ELSE Fallback(call(1), typed, limit, source)

\* CryptoTracker.search_coins; source is what the price source does when asked
search_coins(query, limit, source) ==
    LET lowered == LowerChars(query)
        call(fetches) == [op |-> "search_coins", query |-> query, limit |-> limit,
                          fetches |-> fetches]
    IN  IF \E key \in DOMAIN MAJOR_COINS : Chars[key] = lowered
        THEN [call |-> call(0), status |-> "ok",
              value |-> <<MAJOR_COINS[CHOOSE key \in DOMAIN MAJOR_COINS : Chars[key] = lowered]>>]
        ELSE Fallback(call(1), lowered, limit, source)

SearchInput(query, limit, source) ==
    [kind |-> "search_coins", query |-> query, limit |-> limit, source |-> source]

InitSearch ==
    /\ tracked = {}
    /\ coin_prices = <<>>
    /\ clock = 0
    /\ \E query \in Queries, limit \in SearchLimits, source \in CatalogOutcomes :
          arg = SearchInput(query, limit, source)
    /\ result = NoResult
    /\ pc = Idle
    /\ connection = ServiceConnection

SearchCoins ==
    /\ arg.kind = "search_coins"
    /\ result = NoResult
    /\ result' = search_coins(arg.query, arg.limit, arg.source)
    /\ UNCHANGED <<tracked, coin_prices, clock, arg, pc, connection>>

NextSearch == SearchCoins

SpecSearch == InitSearch /\ [][NextSearch]_vars

(***************************************************************************)
(* Properties of the search.  They are stated on whole strings and their   *)
(* lowercase forms, entry by entry of the catalog the source returned.     *)
(***************************************************************************)
IsSearch == result.call.op = "search_coins"
FellBack == IsSearch /\ result.call.fetches = 1
Catalog == arg.source.all_coins
HasDot(e) == \E i \in 1..Len(Chars[e.symbol]) : Chars[e.symbol][i] = "."
LongSymbol(e) == Len(Chars[e.symbol]) > 10
NameHas(e, kw) == Contains(Chars[Lower(e.name)], Chars[kw])
Excluded(e) ==
    \/ HasDot(e) \/ LongSymbol(e)
    \/ NameHas(e, "-peg") \/ NameHas(e, "wrapped") \/ NameHas(e, "token") \/ NameHas(e, "staked")
Incomplete(e) == e.id = "" \/ e.symbol = "" \/ e.name = ""
ExactMatch(e) == Lower(arg.query) \in {Lower(e.symbol), Lower(e.id), Lower(e.name)}
Wanted(e) == ~Malformed(e) /\ ~Excluded(e) /\ ~Incomplete(e) /\ ExactMatch(e)
FullMatchList == SelectSeq(Catalog, Wanted)
\* the source returned a catalog: a list of entries with id, symbol, name
GaveCatalog ==
    /\ ~arg.source.raised
    /\ arg.source.body = "list"
    /\ \A j \in 1..Len(Catalog) : ~Malformed(Catalog[j])

\* C11: the fallback search never returns an entry whose symbol has a '.'
\* or more than 10 characters, or whose lowercased name contains '-peg',
\* 'wrapped', 'token' or 'staked', whatever the query and whatever the
\* source returned; and when the source returned a catalog none of whose
\* entries passes, it returns the empty list and does not raise.
C11_FallbackNeverReturnsExcluded ==
    /\ (FellBack /\ result.status = "ok") =>
          \A i \in 1..Len(result.value) :
              /\ \E j \in 1..Len(Catalog) : Catalog[j] = result.value[i]
              /\ ~Excluded(result.value[i])
    /\ (FellBack /\ GaveCatalog) =>
          /\ result.status = "ok"
          /\ (\A j \in 1..Len(Catalog) : ~Wanted(Catalog[j])) => result.value = <<>>

\* the query is the id of an entry whose name says it is wrapped
C11_Witness ==
    /\ FellBack
    /\ arg.query = "wbtc"
    /\ arg.limit >= 1
    /\ GaveCatalog
    /\ \E j \in 1..Len(Catalog) : Catalog[j].id = "wbtc" /\ NameHas(Catalog[j], "wrapped")
    /\ result.status = "ok"
    /\ result.value = <<>>

\* C12: a query whose lowercase form is a key of the priority table gives
\* exactly the table's entry for that key, without a fetch of the catalog,
\* whatever the catalog and the limit; a symbol key and its id key give the
\* same coin ('btc' and 'bitcoin' give id 'bitcoin', 'xrp' gives 'ripple').
C12_PriorityTableAnswersAlone ==
    /\ \A key \in DOMAIN MAJOR_COINS :
          /\ MAJOR_COINS[MAJOR_COINS[key].id] = MAJOR_COINS[key]
          /\ MAJOR_COINS[MAJOR_COINS[key].symbol] = MAJOR_COINS[key]
    /\ (IsSearch /\ Lower(arg.query) \in DOMAIN MAJOR_COINS) =>
          /\ result.call.fetches = 0
          /\ result.status = "ok"
          /\ result.value = <<MAJOR_COINS[Lower(arg.query)]>>
          /\ Lower(arg.query) \in {"btc", "bitcoin"} => result.value[1].id = "bitcoin"
          /\ Lower(arg.query) = "xrp" => result.value[1].id = "ripple"

\* the query is typed in capitals, the limit is below one and the catalog
\* holds another coin with the symbol btc
C12_Witness ==
    /\ IsSearch
    /\ arg.query = "BTC"
    /\ arg.limit = 0
    /\ \E j \in 1..Len(Catalog) :
          ~Malformed(Catalog[j]) /\ Catalog[j].symbol = "btc" /\ Catalog[j].id # "bitcoin"
    /\ result.value = <<Coin("bitcoin", "btc", "Bitcoin")>>
    /\ result.call.fetches = 0

\* C13: for a query that is not in the priority table, a catalog returned
\* by the source and a limit of zero or more, the result is the list of the passing entries that match the
\* query exactly, in catalog order, cut once `limit` of them are collected:
\* at most `limit` entries, a prefix of the full match list.
C13_FallbackCollectsUpToLimit ==
    (FellBack /\ GaveCatalog /\ arg.limit >= 0) =>
        /\ Len(result.value) <= arg.limit
        /\ Len(result.value) <= Len(FullMatchList)
        /\ result.value = SubSeq(FullMatchList, 1, Len(result.value))
        /\ Len(result.value) < arg.limit => result.value = FullMatchList

(***************************************************************************)
(* The interactive add: search, list the matches, read selections from     *)
(* the terminal until one is valid, add the selected coin.  pc holds the   *)
(* matches listed and the lines typed so far while the prompt is open.     *)
(***************************************************************************)
\* most prompts of one flow
MaxPrompts == 3

\* the catalog of the price source while coins are added interactively
InteractiveCatalog ==
    <<Coin("pepe", "PEPE", "Pepe"),
      Coin("pepe-token", "pepe", "Pepe Token"),
      Coin("pepe-2", "pepe", "Pepe Two"),
      Coin("tencoin", "abcdefghij", "TenCoin"),
      Coin("binancecoin", "bnb", "Binance Coin")>>
InteractiveSources ==
    {CatalogBody(InteractiveCatalog), NullBody, CatalogRaises(SourceError),
     CatalogRaises(Interrupted)}
InteractiveQueries == {"pepe", "tencoin", "binance coin", "BTC", "spam"}
\* lines the user may type at the prompt, already stripped
SelectionInputs == {"abc", "", "1.5", "-1", "0", "1", "2", "3", "99"}

Digits == <<"0", "1", "2", "3", "4", "5", "6", "7", "8", "9">>
IsDigit(c) == \E k \in 1..Len(Digits) : Digits[k] = c
DigitValue(c) == (CHOOSE k \in 1..Len(Digits) : Digits[k] = c) - 1
RECURSIVE DigitsValue(_)
DigitsValue(chars) ==
    IF chars = <<>> THEN 0
    ELSE 10 * DigitsValue(SubSeq(chars, 1, Len(chars) - 1)) + DigitValue(chars[Len(chars)])
\* int(choice_str): the number, or a ValueError
ParseInt(choice_str) ==
    LET chars == Chars[choice_str]
        signed == chars # <<>> /\ chars[1] \in {"-", "+"}
        body == IF signed THEN Tail(chars) ELSE chars
    IN  IF body # <<>> /\ \A i \in 1..Len(body) : IsDigit(body[i])
        THEN [raised |-> FALSE,
              value |-> IF signed /\ chars[1] = "-" THEN -DigitsValue(body) ELSE DigitsValue(body)]
        ELSE [raised |-> TRUE, value |-> 0]

\* a variant that takes the number typed as the index into matches
SelectionFromZero(matches, choice_str) ==
    LET choice == ParseInt(choice_str)
    IN  IF choice.raised THEN [kind |-> "retry"]
        ELSE IF ~(0 <= choice.value /\ choice.value <= Len(matches)) THEN [kind |-> "retry"]
        ELSE IF choice.value = 0 THEN [kind |-> "cancel"]
        ELSE [kind |-> "selected",
              selected_coin |-> matches[IF choice.value < Len(matches)
                                        THEN choice.value + 1 ELSE 1]]

\* one round of the prompt loop and what follows it: ask again, cancel, or
\* the coin selected
Selection(matches, choice_str) ==
    LET choice == ParseInt(choice_str)
    IN  IF choice.raised THEN [kind |-> "retry"]
        ELSE IF ~(0 <= choice.value /\ choice.value <= Len(matches)) THEN [kind |-> "retry"]
        ELSE IF choice.value = 0 THEN [kind |-> "cancel"]
        ELSE [kind |-> "selected", selected_coin |-> matches[choice.value]]

InteractiveCall(query, matches, inputs) ==
    [op |-> "add_tracked_coin_interactive", query |-> query, matches |-> matches,
     inputs |-> inputs]

\* the errors the main loop expects of a menu action
ExpectedErrors == {"ValueError", "KeyError", "DoesNotExist"}

\* the line logging.error writes for the outcome of a menu action, if any
ErrorLog(logged, outcome) ==
    IF outcome.status # "error" THEN logged
    ELSE IF outcome.error \in ExpectedErrors THEN Append(logged, "Error")
    ELSE Append(logged, "An unexpected error occurred")

\* the main loop at "Press Enter to continue..."
Pause(menu, logged) == [at |-> "pause", round |-> menu.round + 1, logged |-> logged]

\* the main loop left: the finally has run
Ended(menu, by) == [at |-> "ended", by |-> by, round |-> menu.round, logged |-> menu.logged]

\* a variant of the main loop without its `except Exception`: an error it
\* does not expect leaves the loop, through the finally
AfterActionExpectedOnly(menu, outcome) ==
    IF outcome.status = "error" /\ outcome.error \notin ExpectedErrors
    THEN [pc |-> Ended(menu, "error"), connection |-> disconnect(connection)]
    ELSE [pc |-> Pause(menu, ErrorLog(menu.logged, outcome)), connection |-> connection]

\* main, after action(tracker) returned or raised: an Exception is logged
\* and the loop goes on to "Press Enter to continue..."; an interrupt is no
\* Exception and leaves the loop, through the finally
AfterAction(menu, outcome) ==
    IF outcome.status = "error" /\ outcome.error = Interrupted
    THEN [pc |-> Ended(menu, "error"), connection |-> disconnect(connection)]
    ELSE [pc |-> Pause(menu, ErrorLog(menu.logged, outcome)), connection |-> connection]

\* where a call that returned or raised leaves its caller: a direct caller
\* of the service is idle again, the main loop goes on after its menu action
Finish(back, outcome) ==
    IF back.at = "idle" THEN [pc |-> Idle, connection |-> connection]
    ELSE AfterAction(back, outcome)

\* the call ends with outcome
Return(back, outcome) ==
    /\ result' = outcome
    /\ pc' = Finish(back, outcome).pc
    /\ connection' = Finish(back, outcome).connection

\* the last statement of add_tracked_coin_interactive: add the selected coin
AddSelected(back, call, selected_coin) ==
    LET done == add_tracked_coin(selected_coin.id, selected_coin.symbol, selected_coin.name)
    IN  /\ tracked' = done.tracked
        /\ Return(back, IF done.status = "ok"
                        THEN [call |-> call, status |-> "ok", value |-> done.value]
                        ELSE [call |-> call, status |-> "error", error |-> done.error,
                              message |-> "already tracked"])

\* add_tracked_coin_interactive(query), up to its first prompt; back is
\* where the caller stands
InteractiveStart(back, query, source) ==
    LET found == search_coins(query, 10, source)
        matches == found.value
        call == InteractiveCall(query, IF found.status = "ok" THEN matches ELSE <<>>, <<>>)
    IN  IF found.status = "error"
        THEN /\ Return(back, [call |-> call, status |-> "error", error |-> found.error,
                              message |-> "source failed"])
             /\ UNCHANGED tracked
        ELSE IF matches = <<>>
        THEN /\ Return(back, [call |-> call, status |-> "error", error |-> "ValueError",
                              message |-> "No quality coins found"])
             /\ UNCHANGED tracked
        ELSE IF Len(matches) = 1 /\ \E key \in DOMAIN MAJOR_COINS : MAJOR_COINS[key] = matches[1]
        THEN AddSelected(back, call, matches[1])
        ELSE /\ pc' = [at |-> "select", query |-> query, matches |-> matches,
                       inputs |-> <<>>, back |-> back]
             /\ UNCHANGED <<tracked, result, connection>>

\* CryptoTracker.add_tracked_coin_interactive, called on the service
AddTrackedCoinInteractive ==
    /\ result = NoResult
    /\ pc = Idle
    /\ \E query \in InteractiveQueries, source \in InteractiveSources :
          InteractiveStart(Idle, query, source)
    /\ UNCHANGED <<coin_prices, clock, arg>>

\* what input() raises when no line is read: the terminal is at end of
\* file, or the user interrupts
PromptErrors == {"EOFError", Interrupted}

\* the user types a line at the prompt, or input() raises: the prompt loop
\* catches ValueError only, so the error leaves the call
Select ==
    /\ pc.at = "select"
    /\ \/ \E error \in PromptErrors :
            /\ Return(pc.back, [call |-> InteractiveCall(pc.query, pc.matches, pc.inputs),
                                status |-> "error", error |-> error,
                                message |-> "no line read"])
            /\ UNCHANGED tracked
       \/ \E choice_str \in SelectionInputs :
        LET inputs == Append(pc.inputs, choice_str)
            call == InteractiveCall(pc.query, pc.matches, inputs)
            chosen == Selection(pc.matches, choice_str)
        IN  CASE chosen.kind = "retry" ->
                    /\ Len(inputs) < MaxPrompts
                    /\ pc' = [pc EXCEPT !.inputs = inputs]
                    /\ UNCHANGED <<tracked, result, connection>>
              [] chosen.kind = "cancel" ->
                    /\ Return(pc.back, [call |-> call, status |-> "error", error |-> "ValueError",
                                        message |-> "Operation cancelled by user."])
                    /\ UNCHANGED tracked
              [] chosen.kind = "selected" -> AddSelected(pc.back, call, chosen.selected_coin)
    /\ UNCHANGED <<coin_prices, clock, arg>>

NextInteractive == AddTrackedCoinInteractive \/ Select \/ Continue

SpecInteractive == Init /\ [][NextInteractive]_vars

(***************************************************************************)
(* Properties of the interactive add.  A step taken while the prompt is    *)
(* open is the user typing one line; the line is the last of the inputs    *)
(* the step leaves in pc or in the result.                                 *)
(***************************************************************************)
IsInteractive == result.call.op = "add_tracked_coin_interactive"
\* the lines that are numbers, and their values
TypedNumber ==
    ("-1" :> -1) @@ ("0" :> 0) @@ ("1" :> 1) @@ ("2" :> 2) @@ ("3" :> 3) @@ ("99" :> 99)
\* the step reads a line; otherwise input() raised
LineTyped == pc'.at = "select" \/ Len(result'.call.inputs) = Len(pc.inputs) + 1
TypedLine == IF pc'.at = "select" THEN LastOf(pc'.inputs) ELSE LastOf(result'.call.inputs)
InvalidLine(line) ==
    line \notin DOMAIN TypedNumber \/ TypedNumber[line] \notin 0..Len(pc.matches)
EntryFor(m) == [coin_id |-> m.id, symbol |-> Lower(m.symbol), name |-> m.name, is_active |-> TRUE]
AsksAgain ==
    /\ tracked' = tracked
    /\ result' = NoResult
    /\ pc'.at = "select"
    /\ pc'.matches = pc.matches
Cancelled ==
    /\ tracked' = tracked
    /\ result'.status = "error"
    /\ result'.message = "Operation cancelled by user."
    /\ pc' = Idle
Added(m) ==
    /\ m.id \notin TrackedIds
    /\ tracked' = tracked \cup {EntryFor(m)}
    /\ result'.status = "ok"
    /\ result'.value = EntryFor(m)
    /\ pc' = Idle
RefusedAsTracked(m) ==
    /\ m.id \in TrackedIds
    /\ tracked' = tracked
    /\ result'.status = "error"
    /\ result'.message = "already tracked"
    /\ pc' = Idle

\* C15 as stated: at the prompt, a line that is no number or is out of
\* range adds nothing and leads to another prompt; 0 ends the flow with
\* 'Operation cancelled by user' and adds nothing; k in 1..len(matches)
\* adds exactly the k-th listed match and nothing else.
C15_SelectionAlwaysAdds ==
    [][(pc.at = "select" /\ LineTyped) =>
        IF InvalidLine(TypedLine) THEN AsksAgain
        ELSE IF TypedNumber[TypedLine] = 0 THEN Cancelled
        ELSE Added(pc.matches[TypedNumber[TypedLine]])
      ]_vars

\* C15, amended: as above, but k in 1..len(matches) adds exactly the k-th
\* listed match and nothing else when its coin id is not tracked yet, and
\* when it is tracked the flow ends with the already-tracked error and adds
\* nothing.
C15_SelectionAddsUnlessTracked ==
    [][(pc.at = "select" /\ LineTyped) =>
        IF InvalidLine(TypedLine) THEN AsksAgain
        ELSE IF TypedNumber[TypedLine] = 0 THEN Cancelled
        ELSE \/ Added(pc.matches[TypedNumber[TypedLine]])
             \/ RefusedAsTracked(pc.matches[TypedNumber[TypedLine]])
      ]_vars

\* two matches were listed, the user typed a number out of range, then a
\* line that is no number, then 2, and the second match is now tracked
C15_Witness ==
    /\ IsInteractive
    /\ result.status = "ok"
    /\ Len(result.call.matches) = 2
    /\ result.call.inputs = <<"99", "abc", "2">>
    /\ result.value.coin_id = result.call.matches[2].id
    /\ \E d \in tracked : d.coin_id = result.call.matches[2].id
    /\ \A d \in tracked : d.coin_id # result.call.matches[1].id

(***************************************************************************)
(* The connection on its own: Init draws a list of connect and disconnect  *)
(* calls on a new MongoDBConnection, with what the driver does when its    *)
(* connect is reached; pc.next is the call to make next.                   *)
(***************************************************************************)
\* longest list of calls on one connection
MaxCalls == 4

ConnectionCalls ==
    {[fn |-> "connect", driver_raises |-> FALSE],
     [fn |-> "connect", driver_raises |-> TRUE],
     [fn |-> "disconnect", driver_raises |-> FALSE]}

ConnectionInputs ==
    {[kind |-> "connection", calls |-> c] : c \in SeqsUpTo(ConnectionCalls, MaxCalls)}

InitConnection ==
    /\ tracked = {}
    /\ coin_prices = <<>>
    /\ clock = 0
    /\ arg \in ConnectionInputs
    /\ result = NoResult
    /\ pc = [at |-> "calls", next |-> 1]
    /\ connection = MongoDBConnection

\* MongoDBConnection.connect
Connect ==
    /\ arg.kind = "connection"
    /\ pc.next <= Len(arg.calls)
    /\ arg.calls[pc.next].fn = "connect"
    /\ LET done == connect(connection, arg.calls[pc.next].driver_raises)
       IN  /\ connection' = done.conn
           /\ result' = [call |-> [op |-> "connect"],
                         status |-> IF done.raised THEN "error" ELSE "ok"]
    /\ pc' = [pc EXCEPT !.next = @ + 1]
    /\ UNCHANGED <<tracked, coin_prices, clock, arg>>

\* MongoDBConnection.disconnect
Disconnect ==
    /\ arg.kind = "connection"
    /\ pc.next <= Len(arg.calls)
    /\ arg.calls[pc.next].fn = "disconnect"
    /\ connection' = disconnect(connection)
    /\ result' = [call |-> [op |-> "disconnect"], status |-> "ok"]
    /\ pc' = [pc EXCEPT !.next = @ + 1]
    /\ UNCHANGED <<tracked, coin_prices, clock, arg>>

NextConnection == Connect \/ Disconnect

SpecConnection == InitConnection /\ [][NextConnection]_vars

(***************************************************************************)
(* Properties of the connection.                                           *)
(***************************************************************************)
DriverInvoked == Len(connection'.driver) = Len(connection.driver) + 1
LastDriverCall == connection'.driver[Len(connection'.driver)]
DriverCompleted == SelectSeq(connection.driver, LAMBDA c : ~c.raised)
Alternates(calls) ==
    \A i \in 1..Len(calls) : calls[i].fn = IF i % 2 = 1 THEN "connect" ELSE "disconnect"
ConnectionStep ==
    /\ \/ connection'.driver = connection.driver
       \/ DriverInvoked /\ SubSeq(connection'.driver, 1, Len(connection.driver)) = connection.driver
    /\ (DriverInvoked /\ LastDriverCall.fn = "connect") => ~connection._connected
    /\ (DriverInvoked /\ LastDriverCall.fn = "disconnect") => connection._connected
    /\ (result'.call.op = "connect" /\ connection._connected) => connection' = connection
    /\ (result'.call.op = "disconnect" /\ ~connection._connected) => connection' = connection
    /\ (DriverInvoked /\ LastDriverCall.fn = "connect") =>
            /\ connection'._connected = ~LastDriverCall.raised
            /\ result'.status = IF LastDriverCall.raised THEN "error" ELSE "ok"
    /\ (DriverInvoked /\ LastDriverCall.fn = "disconnect") => ~connection'._connected

\* C19 as stated: the driver's connect is invoked only when the instance is
\* not marked connected and the driver's disconnect only when it is, so
\* the driver's connect and disconnect invocations strictly alternate,
\* starting with connect; a repeated connect, or a disconnect of an
\* instance that is not connected, is a no-op; a failed driver connect
\* leaves the instance marked not connected.
C19_DriverCallsAlternate ==
    /\ [][ConnectionStep]_vars
    /\ [](Alternates(connection.driver))

\* C19, amended: as above, but the invocations that strictly alternate are
\* the driver connects that did not fail and the driver disconnects: a
\* driver connect that failed may be followed by another driver connect.
C19_CompletedDriverCallsAlternate ==
    /\ [][ConnectionStep]_vars
    /\ [](Alternates(DriverCompleted))
    /\ [](connection._connected <=> Len(DriverCompleted) % 2 = 1)

\* the driver's connect failed, then succeeded, a third connect was a
\* no-op, and the disconnect reached the driver
C19_Witness ==
    /\ arg.kind = "connection"
    /\ pc.next = 5
    /\ connection.driver = <<DriverCall("connect", TRUE), DriverCall("connect", FALSE),
                             DriverCall("disconnect", FALSE)>>
    /\ ~connection._connected
    /\ result.call.op = "disconnect"

(***************************************************************************)
(* The command line: main() shows the menu, reads a choice, runs its       *)
(* action, waits for Enter, and starts over.  pc is the place of the loop: *)
(* at the menu, inside the prompt of the interactive add, at "Press Enter  *)
(* to continue...", or ended.  A handler that asks again until the line it *)
(* reads is acceptable is one step, taken with the line it accepted.       *)
(***************************************************************************)
\* menu choices made in one run
MaxRounds == 4

\* lines typed at "Enter your choice: ", already stripped
MenuChoices == {"0", "1", "2", "3", "4", "5", "6", "9", ""}
\* the keys of actions in main
Actions == {"1", "2", "3", "4", "5", "6"}
\* lines typed for a query, a coin id, a limit, a confirmation
CliQueries == {"", "BTC", "pepe"}
CliCoinIds == {"", "Bitcoin", "pepe"}
LimitInputs == {"", "1", "3", "4", "5", "abc"}
ConfirmInputs == {"YES", "n"}
DeletePricesInputs == {"y", "no"}

\* tracker.close()
close(conn) == disconnect(conn)

Menu(round, logged) == [at |-> "menu", round |-> round, logged |-> logged]

InitCli ==
    /\ tracked = {}
    /\ coin_prices = <<>>
    /\ clock = 0
    /\ arg = NoArg
    /\ result = NoResult
    /\ pc = Menu(0, <<>>)
    /\ connection = ServiceConnection

\* the menu is shown and choice is typed
Chosen(choice) ==
    /\ pc.at = "menu"
    /\ pc.round < MaxRounds
    /\ choice \in Actions

\* str.isdigit() and int(str) > floor, for the line read or the default "10"
LimitLine(limit_str) == IF limit_str = "" THEN "10" ELSE limit_str
AcceptedLimit(limit_str, floor) ==
    LET chars == Chars[LimitLine(limit_str)]
    IN  /\ chars # <<>>
        /\ \A i \in 1..Len(chars) : IsDigit(chars[i])
        /\ DigitsValue(chars) > floor

\* the outcome of a handler that raises before it calls the service
Raised(op, error, message) ==
    [call |-> [op |-> op], status |-> "error", error |-> error, message |-> message]

\* input() inside a handler reads no line: EOFError, which the main loop
\* does not expect, or an interrupt
EndOfInput(op) == \E error \in PromptErrors : Return(pc, Raised(op, error, "no line read"))

\* handle_add_coin
HandleAddCoin ==
    /\ Chosen("1")
    /\ \/ EndOfInput("handle_add_coin") /\ UNCHANGED tracked
       \/ \E query \in CliQueries :
            IF query = ""
            THEN /\ Return(pc, Raised("handle_add_coin", "ValueError",
                                      "Search query cannot be empty."))
                 /\ UNCHANGED tracked
            ELSE \E source \in InteractiveSources : InteractiveStart(pc, query, source)
    /\ UNCHANGED <<coin_prices, clock, arg>>

\* handle_list_coins
HandleListCoins ==
    /\ Chosen("2")
    /\ Return(pc, [call |-> [op |-> "handle_list_coins"], status |-> "ok",
                   value |-> list_tracked_coins])
    /\ UNCHANGED <<tracked, coin_prices, clock, arg>>

\* handle_record_prices: the list the batch returns is dropped
HandleRecordPrices ==
    /\ Chosen("3")
    /\ clock + Cardinality(tracked) <= MaxRecords
    /\ \E outcome \in BatchOutcomes :
        LET tracked_coins == list_tracked_coins
            start == [coin_prices |-> coin_prices, clock |-> clock, prices |-> <<>>,
                      attempts |-> <<>>, raised |-> FALSE]
            done == IF tracked_coins = <<>> THEN start
                    ELSE RecordLoop(tracked_coins, outcome, start)
        IN  /\ coin_prices' = done.coin_prices
            /\ clock' = done.clock
            /\ Return(pc, [call |-> [op |-> "handle_record_prices"],
                           status |-> IF done.raised THEN "error" ELSE "ok",
                           error |-> IF done.raised THEN Interrupted ELSE "none"])
    /\ UNCHANGED <<tracked, arg>>

\* handle_market_analytics
HandleMarketAnalytics ==
    /\ Chosen("4")
    /\ \/ EndOfInput("handle_market_analytics")
       \/ \E typed \in CliCoinIds :
        LET coin_id == Lower(typed)
        IN  IF coin_id = ""
            THEN Return(pc, Raised("handle_market_analytics", "ValueError",
                                   "Coin ID cannot be empty."))
            ELSE \E limit_str \in LimitInputs :
                    /\ AcceptedLimit(limit_str, 1)
                    /\ LET limit == DigitsValue(Chars[LimitLine(limit_str)])
                       IN  Return(pc, get_market_analytics(coin_id, limit,
                                          get_price_history(coin_id, limit)))
    /\ UNCHANGED <<tracked, coin_prices, clock, arg>>

\* handle_trend_analysis
HandleTrendAnalysis ==
    /\ Chosen("5")
    /\ \/ EndOfInput("handle_trend_analysis")
       \/ \E typed \in CliCoinIds :
        LET coin_id == Lower(typed)
        IN  IF coin_id = ""
            THEN Return(pc, Raised("handle_trend_analysis", "ValueError",
                                   "Coin ID cannot be empty."))
            ELSE \E limit_str \in LimitInputs :
                    /\ AcceptedLimit(limit_str, 3)
                    /\ LET limit == DigitsValue(Chars[LimitLine(limit_str)])
                       IN  Return(pc, get_trend_analysis(coin_id, limit,
                                          get_price_history(coin_id, limit)))
    /\ UNCHANGED <<tracked, coin_prices, clock, arg>>

\* handle_delete_coin
HandleDeleteCoin ==
    /\ Chosen("6")
    /\ \/ EndOfInput("handle_delete_coin") /\ UNCHANGED <<tracked, coin_prices>>
       \/ \E typed \in CliCoinIds :
        LET coin_id == Lower(typed)
        IN  IF coin_id = ""
            THEN /\ Return(pc, Raised("handle_delete_coin", "ValueError",
                                      "Coin ID cannot be empty."))
                 /\ UNCHANGED <<tracked, coin_prices>>
            ELSE \E confirm \in ConfirmInputs, delete_prices_str \in DeletePricesInputs :
                    LET confirm_str == Lower(confirm)
                        delete_prices == Lower(delete_prices_str) \in {"yes", "y"}
                        call == [op |-> "handle_delete_coin", coin_id |-> coin_id,
                                 confirm_str |-> confirm_str]
                        done == delete_tracked_coin(coin_id, delete_prices)
                    IN  /\ confirm_str \in {"yes", "y", "no", "n"}
                        /\ IF confirm_str \in {"no", "n"}
                           THEN /\ Return(pc, [call |-> call, status |-> "ok"])
                                /\ UNCHANGED <<tracked, coin_prices>>
                           ELSE /\ tracked' = done.tracked
                                /\ coin_prices' = done.coin_prices
                                /\ Return(pc, IF done.status = "ok"
                                              THEN [call |-> call, status |-> "ok"]
                                              ELSE [call |-> call, status |-> "error",
                                                    error |-> done.error])
    /\ UNCHANGED <<clock, arg>>

\* a choice that is no key of actions, and not "0"
InvalidOption ==
    /\ pc.at = "menu"
    /\ pc.round < MaxRounds
    /\ \E choice \in MenuChoices \ (Actions \cup {"0"}) :
        /\ result' = [call |-> [op |-> "main", choice |-> choice], status |-> "invalid"]
        /\ pc' = Pause(pc, Append(pc.logged, "Invalid option"))
    /\ UNCHANGED <<tracked, coin_prices, clock, arg, connection>>

\* Enter at "Press Enter to continue...": the loop starts over
PressEnter ==
    /\ pc.at = "pause"
    /\ pc' = Menu(pc.round, pc.logged)
    /\ result' = NoResult
    /\ UNCHANGED <<tracked, coin_prices, clock, arg, connection>>

\* choice "0": break, then the finally
Exit ==
    /\ pc.at = "menu"
    /\ pc' = Ended(pc, "exit")
    /\ connection' = close(connection)
    /\ UNCHANGED <<tracked, coin_prices, clock, arg, result>>

\* input() of the loop itself, at the menu or at the pause, raises
\* KeyboardInterrupt or EOFError outside the inner try: the error leaves
\* the loop, and the finally runs
Interrupt ==
    /\ pc.at \in {"menu", "pause"}
    /\ pc' = Ended(pc, "error")
    /\ connection' = close(connection)
    /\ UNCHANGED <<tracked, coin_prices, clock, arg, result>>

NextCli ==
    \/ HandleAddCoin \/ Select \/ HandleListCoins \/ HandleRecordPrices
    \/ HandleMarketAnalytics \/ HandleTrendAnalysis \/ HandleDeleteCoin
    \/ InvalidOption \/ PressEnter \/ Exit \/ Interrupt

SpecCli == InitCli /\ [][NextCli]_vars

(***************************************************************************)
(* Properties of the main loop                                             *)
(***************************************************************************)
AtMenu(place) == IF place.at = "select" THEN place.back ELSE place
\* a menu action has returned or raised, or the choice was no option
ActionOver == pc.at \in {"menu", "select"} /\ result' # result
\* the action was interrupted: what it raised is no Exception
ActionInterrupted == result'.status = "error" /\ result'.error = Interrupted
LoopLeft == pc.at # "ended" /\ pc'.at = "ended"
LoopStep ==
    /\ pc.at # "ended"
    /\ (ActionOver /\ ~ActionInterrupted) =>
          /\ pc'.at = "pause"
          /\ pc'.round = AtMenu(pc).round + 1
          /\ connection' = connection
          /\ result'.status \in {"error", "invalid"} =>
                Len(pc'.logged) = Len(AtMenu(pc).logged) + 1
    /\ (ActionOver /\ ActionInterrupted) => LoopLeft
    /\ pc.at = "pause" =>
          \/ pc' = Menu(pc.round, pc.logged) /\ result' = NoResult
          \/ pc'.at = "ended" /\ pc'.by = "error"
    /\ LoopLeft =>
          /\ \/ pc.at = "menu" /\ pc'.by = "exit" /\ result' = result
             \/ pc.at \in {"menu", "pause"} /\ pc'.by = "error" /\ result' = result
             \/ ActionOver /\ ActionInterrupted /\ pc'.by = "error"
          /\ connection' = disconnect(connection)

\* C18: an Exception raised by a menu action, one the loop expects or not,
\* or an unknown choice never ends the main loop: it is logged, the loop
\* waits at "Press Enter to continue..." and then shows the menu again; the
\* loop ends only on choice "0" or on an error that escapes it (an
\* interrupt of the action, or a read of the menu or of the pause that
\* raises); and whenever the loop has ended, tracker.close() has run: the
\* connection is not marked connected and the last call the driver got is
\* a disconnect.
C18_LoopEndsOnlyOnExitAndCloses ==
    /\ [][LoopStep]_vars
    /\ [](pc.at = "ended" =>
            /\ ~connection._connected
            /\ connection.driver = <<DriverCall("connect", FALSE),
                                     DriverCall("disconnect", FALSE)>>)

\* the loop logged an expected error, an unexpected one and an unknown
\* choice, went on each time, and ended on choice "0" with the connection
\* disconnected
C18_Witness ==
    /\ pc.at = "ended"
    /\ pc.by = "exit"
    /\ \A line \in {"Error", "An unexpected error occurred", "Invalid option"} :
          \E i \in 1..Len(pc.logged) : pc.logged[i] = line
    /\ ~connection._connected

====
